---- MODULE Spec2Model ----
(***************************************************************************)
(* Model of src/language/client.ts: the launch of the Naninovel language   *)
(* service (runtime acquisition, server existence check, client start,     *)
(* wait for readiness) and the telemetry / error handlers it installs.     *)
(*                                                                         *)
(* One action is one synchronous run of the code between two suspension    *)
(* points, split at statement boundaries; events from the server process   *)
(* are delivered only while the launch is suspended or over, as the        *)
(* single-threaded event loop does.                                        *)
(***************************************************************************)
EXTENDS Integers, Sequences, FiniteSets, TLC

\* ---------------------------------------------------------------- bounds
MaxEvents == 2      \* server events (telemetry, error, closed) delivered in one run
MaxCount == 2       \* largest error count the connection passes to the handler

\* ------------------------------------------------------------- constants
\* An optional value is a sequence: empty when undefined, else its value.
None == <<>>
Some(x) == <<x>>
Val(o) == o[1]
lspErrorId == "naniscript.lsp-error"

\* --------------------------------------------------------------- paths
\* A path is its absolute flag and its segments; "" is the relative path
\* with no segment.
Path(a, s) == [abs |-> a, segs |-> s]
EmptyPath == Path(FALSE, <<>>)
Cwd == <<"cwd">>                    \* process.cwd()
ExtensionPath == <<"ext">>          \* context.extensionPath
packagedServerPath == Path(FALSE, <<"server", "NaninovelLanguageServer.dll">>)

RECURSIVE NormalizeSegs(_, _)
\* path normalisation: "." is dropped, ".." removes the segment before it
NormalizeSegs(todo, done) ==
    IF todo = <<>> THEN done
    ELSE LET h == Head(todo) IN
         IF h = "." THEN NormalizeSegs(Tail(todo), done)
         ELSE IF h = ".."
              THEN NormalizeSegs(Tail(todo),
                                 IF done = <<>> THEN done
                                 ELSE SubSeq(done, 1, Len(done) - 1))
              ELSE NormalizeSegs(Tail(todo), Append(done, h))

\* path.resolve(p): absolute and normalised, relative paths against cwd
Resolve(p) ==
    IF p.abs THEN Path(TRUE, NormalizeSegs(p.segs, <<>>))
    ELSE Path(TRUE, NormalizeSegs(Cwd \o p.segs, <<>>))

\* context.asAbsolutePath(rel): the path joined to the extension's directory
AsAbsolutePath(rel) == Path(TRUE, NormalizeSegs(ExtensionPath \o rel.segs, <<>>))

PackagedAbs == AsAbsolutePath(packagedServerPath)
DebugAbs == Path(TRUE, <<"dbg", "ls.dll">>)
DebugRel == Path(FALSE, <<"dbg", "ls.dll">>)
DebugDots == Path(TRUE, <<"dbg", "..", "dbg", "ls.dll">>)

\* values of process.env.NANINOVEL_LANGUAGE_SERVER_PATH
EnvValues == {None, Some(EmptyPath), Some(DebugAbs), Some(DebugRel), Some(DebugDots)}
\* files that may be on disk
Files == {PackagedAbs, DebugAbs, Resolve(DebugRel)}
\* results the host resolves "dotnet.acquire" with
DotnetAbs == Path(TRUE, <<"dotnet", "dotnet">>)
DotnetRel == Path(FALSE, <<"dotnet">>)
AcquireResults == {None, Some([dotnetPath |-> DotnetAbs]), Some([dotnetPath |-> DotnetRel])}

VARIABLES
    pc,                 \* position of the launch
    progress,           \* the withProgress notification: none, shown, success, rejected
    error,              \* the error the launch threw, or None
    acquired,           \* what "dotnet.acquire" resolved with, once it has
    env,                \* process.env.NANINOVEL_LANGUAGE_SERVER_PATH
    fs,                 \* absolute paths that exist on disk
    subscriptions,      \* context.subscriptions
    dotnetCommandPath,  \* local of launchLanguageService
    languageServerPath, \* local of launchLanguageService
    checkedPath,        \* the argument existsSync was called with
    clientState,        \* none, created, starting, running, stopped
    serverExecutable,   \* command and args the client spawns
    errorHandler,       \* client.clientOptions.errorHandler: none, default, custom
    telemetryListener,  \* whether client.onTelemetry has a listener
    ready,              \* the onReady promise: pending, resolved, rejected
    log,                \* lines written to the logger
    calls,              \* external calls made, in order
    events,             \* events the server process delivered
    reports,            \* calls of callWithTelemetryAndErrorHandlingSync
    defaultCalls,       \* invocations of the default error handler
    returns             \* what the installed handler returned, per error/closed event

vars == <<pc, progress, error, acquired, env, fs, subscriptions, dotnetCommandPath,
          languageServerPath, checkedPath, clientState, serverExecutable,
          errorHandler, telemetryListener, ready, log, calls, events, reports,
          defaultCalls, returns>>

envVars == <<env, fs>>
clientVars == <<clientState, serverExecutable, errorHandler, telemetryListener, ready>>
eventVars == <<events, reports, defaultCalls, returns>>
launchVars == <<pc, progress, error, acquired, subscriptions, dotnetCommandPath,
                languageServerPath, checkedPath, log, calls>>

ClientDisposable == "client.start()"
OtherDisposable == "other"

Init ==
    /\ pc = "idle"
    /\ progress = "none"
    /\ error = None
    /\ acquired = None
    /\ env \in EnvValues
    /\ fs \in SUBSET Files
    /\ subscriptions \in {<<>>, <<OtherDisposable>>}
    /\ dotnetCommandPath = None
    /\ languageServerPath = None
    /\ checkedPath = None
    /\ clientState = "none"
    /\ serverExecutable = None
    /\ errorHandler = "none"
    /\ telemetryListener = FALSE
    /\ ready = "pending"
    /\ log = <<>>
    /\ calls = <<>>
    /\ events = <<>>
    /\ reports = <<>>
    /\ defaultCalls = <<>>
    /\ returns = <<>>

\* existsSync(p): false for the empty path, else whether the file is on disk
ExistsSync(p) == p # EmptyPath /\ Resolve(p) \in fs

\* ------------------------------------------------------------ the launch
\* launchLanguageServiceWithProgressReport up to the first suspension: the
\* notification is shown, the launch logs and executes "dotnet.acquire".
Launch ==
    /\ pc = "idle"
    /\ progress' = "shown"
    /\ log' = Append(log, <<"info", "Launching Naninovel language service...">>)
    /\ calls' = Append(calls, "dotnet.acquire")
    /\ pc' = "acquire"
    /\ UNCHANGED <<error, acquired, subscriptions, dotnetCommandPath,
                   languageServerPath, checkedPath>>
    /\ UNCHANGED <<envVars, clientVars, eventVars>>

\* an Error: its message text and the path the message quotes, if any
Error(text, at) == [message |-> text, at |-> at]

\* a throw out of launchLanguageService: the withProgress promise rejects
Throw(err) ==
    /\ error' = Some(err)
    /\ pc' = "failed"
    /\ progress' = "rejected"

\* (mutation) a missing result is not treated as a failure: "dotnet" is used
EnsureDotnetRuntimeInstalledFallback(result) ==
    /\ dotnetCommandPath' =
           Some(Resolve(IF result = None THEN DotnetRel ELSE Val(result).dotnetPath))
    /\ log' = Append(log, <<"debug", "Found dotnet command at",
                            Resolve(IF result = None THEN DotnetRel
                                    ELSE Val(result).dotnetPath)>>)
    /\ pc' = "checkServer"
    /\ UNCHANGED <<error, progress>>

\* ensureDotnetRuntimeInstalled after the host command resolved
EnsureDotnetRuntimeInstalled(result) ==
    IF result = None
    THEN /\ Throw(Error("Failed to install .NET runtime v3.1.", None))
         /\ UNCHANGED <<dotnetCommandPath, log>>
    ELSE /\ dotnetCommandPath' = Some(Resolve(Val(result).dotnetPath))
         /\ log' = Append(log, <<"debug", "Found dotnet command at",
                                 Resolve(Val(result).dotnetPath)>>)
         /\ pc' = "checkServer"
         /\ UNCHANGED <<error, progress>>

\* (mutation) a missing result makes the command run again, once
AcquireResolveRetry ==
    /\ pc = "acquire"
    /\ \E result \in AcquireResults :
        /\ acquired' = Some(result)
        /\ IF result = None /\ Len(calls) < 2
           THEN /\ calls' = Append(calls, "dotnet.acquire")
                /\ UNCHANGED <<pc, error, progress, dotnetCommandPath, log>>
           ELSE /\ EnsureDotnetRuntimeInstalled(result)
                /\ UNCHANGED calls
    /\ UNCHANGED <<subscriptions, languageServerPath, checkedPath>>
    /\ UNCHANGED <<envVars, clientVars, eventVars>>

AcquireResolve ==
    /\ pc = "acquire"
    /\ \E result \in AcquireResults :
        /\ acquired' = Some(result)
        /\ EnsureDotnetRuntimeInstalled(result)
    /\ UNCHANGED <<subscriptions, languageServerPath, checkedPath, calls>>
    /\ UNCHANGED <<envVars, clientVars, eventVars>>

\* the host command rejects: the rejection propagates out of the launch
AcquireReject ==
    /\ pc = "acquire"
    /\ Throw(Error("dotnet.acquire rejected", None))
    /\ UNCHANGED <<acquired, subscriptions, dotnetCommandPath, languageServerPath,
                   checkedPath, log, calls>>
    /\ UNCHANGED <<envVars, clientVars, eventVars>>

\* (mutation) || in place of ??: an empty value falls back to the package
ChosenServerPathFalsy ==
    IF env # None /\ Val(env) # EmptyPath THEN Val(env)
    ELSE AsAbsolutePath(packagedServerPath)

\* process.env.NANINOVEL_LANGUAGE_SERVER_PATH ?? context.asAbsolutePath(...)
ChosenServerPath ==
    IF env # None THEN Val(env) ELSE AsAbsolutePath(packagedServerPath)

\* (mutation) the existence check does not throw
EnsureLanguageServerExistsNoThrow ==
    /\ pc = "checkServer"
    /\ checkedPath' = Some(ChosenServerPath)
    /\ calls' = Append(calls, "existsSync")
    /\ languageServerPath' = Some(Resolve(ChosenServerPath))
    /\ log' = Append(log, <<"debug", "Found language server at",
                            Resolve(ChosenServerPath)>>)
    /\ pc' = "createClient"
    /\ UNCHANGED <<error, progress, acquired, subscriptions, dotnetCommandPath>>
    /\ UNCHANGED <<envVars, clientVars, eventVars>>

EnsureLanguageServerExists ==
    /\ pc = "checkServer"
    /\ checkedPath' = Some(ChosenServerPath)
    /\ calls' = Append(calls, "existsSync")
    /\ IF ~ExistsSync(ChosenServerPath)
       THEN /\ Throw(Error("Language server does not exist at", Some(ChosenServerPath)))
            /\ UNCHANGED <<languageServerPath, log>>
       ELSE /\ languageServerPath' = Some(Resolve(ChosenServerPath))
            /\ log' = Append(log, <<"debug", "Found language server at",
                                    Resolve(ChosenServerPath)>>)
            /\ pc' = "createClient"
            /\ UNCHANGED <<error, progress>>
    /\ UNCHANGED <<acquired, subscriptions, dotnetCommandPath>>
    /\ UNCHANGED <<envVars, clientVars, eventVars>>

\* serverExecutable, serverOptions, clientOptions, new lsp.LanguageClient:
\* the constructor fills clientOptions.errorHandler with the default handler
CreateClient ==
    /\ pc = "createClient"
    /\ serverExecutable' = Some([command |-> Val(dotnetCommandPath),
                                 args |-> <<Val(languageServerPath)>>])
    /\ clientState' = "created"
    /\ errorHandler' = "default"
    /\ calls' = Append(Append(calls, "createFileSystemWatcher"), "new LanguageClient")
    /\ pc' = "configure"
    /\ UNCHANGED <<progress, error, acquired, subscriptions, dotnetCommandPath,
                   languageServerPath, checkedPath, log>>
    /\ UNCHANGED <<envVars, telemetryListener, ready, eventVars>>

\* (mutation) the error handler is not assigned
ConfigureTelemetryNoHandler ==
    /\ pc = "configure"
    /\ telemetryListener' = TRUE
    /\ calls' = Append(Append(calls, "createDefaultErrorHandler"), "onTelemetry")
    /\ pc' = "start"
    /\ UNCHANGED <<progress, error, acquired, subscriptions, dotnetCommandPath,
                   languageServerPath, checkedPath, log>>
    /\ UNCHANGED <<envVars, clientState, serverExecutable, errorHandler, ready,
                   eventVars>>

\* configureTelemetry(client)
ConfigureTelemetry ==
    /\ pc = "configure"
    /\ telemetryListener' = TRUE
    /\ errorHandler' = "custom"
    /\ calls' = Append(Append(calls, "createDefaultErrorHandler"), "onTelemetry")
    /\ pc' = "start"
    /\ UNCHANGED <<progress, error, acquired, subscriptions, dotnetCommandPath,
                   languageServerPath, checkedPath, log>>
    /\ UNCHANGED <<envVars, clientState, serverExecutable, ready, eventVars>>

\* (mutation) the client is started before it is configured
StartClientBeforeConfigure ==
    /\ pc \in {"configure", "start"}
    /\ clientState' = "starting"
    /\ subscriptions' = Append(subscriptions, ClientDisposable)
    /\ log' = Append(log, <<"info", "Naninovel language service started.">>)
    /\ calls' = Append(Append(calls, "start"), "onReady")
    /\ pc' = "awaitReady"
    /\ UNCHANGED <<progress, error, acquired, dotnetCommandPath, languageServerPath,
                   checkedPath>>
    /\ UNCHANGED <<envVars, serverExecutable, errorHandler, telemetryListener,
                   ready, eventVars>>

\* (mutation) the disposable of client.start() is dropped
StartClientNoPush ==
    /\ pc = "start"
    /\ clientState' = "starting"
    /\ log' = Append(log, <<"info", "Naninovel language service started.">>)
    /\ calls' = Append(Append(calls, "start"), "onReady")
    /\ pc' = "awaitReady"
    /\ UNCHANGED <<progress, error, acquired, subscriptions, dotnetCommandPath,
                   languageServerPath, checkedPath>>
    /\ UNCHANGED <<envVars, serverExecutable, errorHandler, telemetryListener,
                   ready, eventVars>>

\* context.subscriptions.push(client.start()); log; client.onReady() suspends
StartClient ==
    /\ pc = "start"
    /\ clientState' = "starting"
    /\ subscriptions' = Append(subscriptions, ClientDisposable)
    /\ log' = Append(log, <<"info", "Naninovel language service started.">>)
    /\ calls' = Append(Append(calls, "start"), "onReady")
    /\ pc' = "awaitReady"
    /\ UNCHANGED <<progress, error, acquired, dotnetCommandPath, languageServerPath,
                   checkedPath>>
    /\ UNCHANGED <<envVars, serverExecutable, errorHandler, telemetryListener,
                   ready, eventVars>>

\* (mutation) client.onReady() is not awaited
LaunchCompletesNoAwait ==
    /\ pc = "awaitReady"
    /\ log' = Append(log, <<"info", "Naninovel language service ready.">>)
    /\ pc' = "done"
    /\ progress' = "success"
    /\ UNCHANGED <<error, acquired, subscriptions, dotnetCommandPath,
                   languageServerPath, checkedPath, calls>>
    /\ UNCHANGED <<envVars, clientVars, eventVars>>

\* the onReady promise resolved: the launch logs and returns
LaunchCompletes ==
    /\ pc = "awaitReady"
    /\ ready = "resolved"
    /\ log' = Append(log, <<"info", "Naninovel language service ready.">>)
    /\ pc' = "done"
    /\ progress' = "success"
    /\ UNCHANGED <<error, acquired, subscriptions, dotnetCommandPath,
                   languageServerPath, checkedPath, calls>>
    /\ UNCHANGED <<envVars, clientVars, eventVars>>

\* the onReady promise rejected: the rejection propagates out of the launch
LaunchFailsOnReady ==
    /\ pc = "awaitReady"
    /\ ready = "rejected"
    /\ Throw(Error("onReady rejected", None))
    /\ UNCHANGED <<acquired, subscriptions, dotnetCommandPath, languageServerPath,
                   checkedPath, log, calls>>
    /\ UNCHANGED <<envVars, clientVars, eventVars>>

\* ------------------------------------------- the host reporting facility
\* callWithTelemetryAndErrorHandlingSync(callbackId, callback): the callback
\* runs on a fresh context (display not suppressed, no rethrow); what it
\* throws is caught and recorded, and rethrown only when the callback asked
\* for it.  The record is the one report the call makes to the host.
CallWithTelemetryAndErrorHandlingSync(callbackId, callback) ==
    [callbackId |-> callbackId,
     properties |-> callback.properties,
     secondsSinceStart |-> callback.secondsSinceStart,
     suppressDisplay |-> callback.suppressDisplay,
     caught |-> callback.throws,
     rethrown |-> callback.throws # None /\ callback.rethrow]

\* (mutation) the received properties are not put on the context
OnTelemetryNoProperties(telemetryData) ==
    CallWithTelemetryAndErrorHandlingSync(
        telemetryData.eventName,
        [suppressDisplay |-> TRUE,
         properties |-> {},
         secondsSinceStart |-> FALSE,
         throws |-> None,
         rethrow |-> FALSE])

\* the listener given to client.onTelemetry
OnTelemetry(telemetryData) ==
    CallWithTelemetryAndErrorHandlingSync(
        telemetryData.eventName,
        [suppressDisplay |-> TRUE,
         properties |-> telemetryData.properties,
         secondsSinceStart |-> FALSE,
         throws |-> None,
         rethrow |-> FALSE])

\* the report of errorHandler.error
ErrorReport(err, message) ==
    CallWithTelemetryAndErrorHandlingSync(
        lspErrorId,
        [suppressDisplay |-> FALSE,
         properties |-> {<<"jsonrpcMessage",
                            IF message # None THEN Val(message).jsonrpc ELSE "">>},
         secondsSinceStart |-> TRUE,
         throws |-> Some(<<"Error: ", err>>),
         rethrow |-> FALSE])

\* the report of errorHandler.closed
ClosedReport ==
    CallWithTelemetryAndErrorHandlingSync(
        lspErrorId,
        [suppressDisplay |-> FALSE,
         properties |-> {},
         secondsSinceStart |-> TRUE,
         throws |-> Some(<<"Connection closed">>),
         rethrow |-> FALSE])

\* an invocation of the default error handler and the action it answered
DefaultCall(kind, args, action) == [kind |-> kind, args |-> args, returned |-> action]

\* (mutation) the handler answers Continue whatever the default handler says
HandlerErrorAlwaysContinue(err, message, count, defaultAction) ==
    [reports |-> <<ErrorReport(err, message)>>,
     defaultCalls |-> <<DefaultCall("error", <<err, message, count>>, defaultAction)>>,
     returned |-> Some("Continue")]

\* errorHandler.error(error, message, count) of the installed handler;
\* defaultAction is what the default handler answers to these arguments.
\* The outcome: the reports made, the default handler's invocations, and the
\* action returned (none when the report's error escaped).
HandlerError(err, message, count, defaultAction) ==
    LET report == ErrorReport(err, message) IN
    IF report.rethrown
    THEN [reports |-> <<report>>, defaultCalls |-> <<>>, returned |-> None]
    ELSE [reports |-> <<report>>,
          defaultCalls |-> <<DefaultCall("error", <<err, message, count>>, defaultAction)>>,
          returned |-> Some(defaultAction)]

\* errorHandler.closed() of the installed handler
HandlerClosed(defaultAction) ==
    LET report == ClosedReport IN
    IF report.rethrown
    THEN [reports |-> <<report>>, defaultCalls |-> <<>>, returned |-> None]
    ELSE [reports |-> <<report>>,
          defaultCalls |-> <<DefaultCall("closed", <<>>, defaultAction)>>,
          returned |-> Some(defaultAction)]

\* the handler the client's constructor installs: the default one alone
DefaultOnlyError(err, message, count, defaultAction) ==
    [reports |-> <<>>,
     defaultCalls |-> <<DefaultCall("error", <<err, message, count>>, defaultAction)>>,
     returned |-> Some(defaultAction)]

DefaultOnlyClosed(defaultAction) ==
    [reports |-> <<>>,
     defaultCalls |-> <<DefaultCall("closed", <<>>, defaultAction)>>,
     returned |-> Some(defaultAction)]

\* ------------------------------------------------ events from the server
EventNames == {"evA", "evB"}
\* telemetry properties: key/value pairs
PropertySets == {{<<"k", "a">>}, {<<"k", "b">>, <<"n", "1">>}}
Errors == {"ECONNRESET"}
Messages == {None, Some([jsonrpc |-> "2.0"])}
Counts == 1..MaxCount
ErrorActions == {"Continue", "Shutdown"}
CloseActions == {"Restart", "DoNotRestart"}

\* the event loop is free: the launch is suspended or over
Idle == pc \in {"acquire", "awaitReady", "done", "failed"}
\* the client has a server process (or is spawning one)
Connected == clientState \in {"starting", "running"}
CanDeliver == Idle /\ Connected /\ Len(events) < MaxEvents

Event(type, name, properties, err, message, count) ==
    [type |-> type, eventName |-> name, properties |-> properties,
     error |-> err, message |-> message, count |-> count]

\* a telemetry notification arrives
TelemetryEvent ==
    /\ CanDeliver
    /\ \E name \in EventNames, properties \in PropertySets :
        /\ events' = Append(events, Event("telemetry", Some(name), Some(properties),
                                          None, None, None))
        /\ reports' = IF telemetryListener
                      THEN Append(reports, OnTelemetry([eventName |-> name,
                                                        properties |-> properties]))
                      ELSE reports
    /\ UNCHANGED <<defaultCalls, returns>>
    /\ UNCHANGED <<launchVars, envVars, clientVars>>

\* the connection reports an error: the installed handler decides
ErrorEvent ==
    /\ CanDeliver
    /\ \E err \in Errors, message \in Messages, count \in Counts,
          defaultAction \in ErrorActions :
        LET out == IF errorHandler = "custom"
                   THEN HandlerError(err, message, count, defaultAction)
                   ELSE DefaultOnlyError(err, message, count, defaultAction) IN
        /\ events' = Append(events, Event("error", None, None, Some(err),
                                          message, Some(count)))
        /\ reports' = reports \o out.reports
        /\ defaultCalls' = defaultCalls \o out.defaultCalls
        /\ returns' = Append(returns, out.returned)
        /\ clientState' = IF out.returned = Some("Shutdown") THEN "stopped"
                          ELSE clientState
    /\ UNCHANGED <<serverExecutable, errorHandler, telemetryListener, ready>>
    /\ UNCHANGED <<launchVars, envVars>>

\* the connection closed: the installed handler decides whether to restart
ClosedEvent ==
    /\ CanDeliver
    /\ \E defaultAction \in CloseActions :
        LET out == IF errorHandler = "custom"
                   THEN HandlerClosed(defaultAction)
                   ELSE DefaultOnlyClosed(defaultAction) IN
        /\ events' = Append(events, Event("closed", None, None, None, None, None))
        /\ reports' = reports \o out.reports
        /\ defaultCalls' = defaultCalls \o out.defaultCalls
        /\ returns' = Append(returns, out.returned)
        /\ clientState' = IF out.returned = Some("Restart") THEN "starting"
                          ELSE "stopped"
    /\ UNCHANGED <<serverExecutable, errorHandler, telemetryListener, ready>>
    /\ UNCHANGED <<launchVars, envVars>>

\* the server answered the initialize request: the client is ready
ServerReady ==
    /\ Idle
    /\ clientState = "starting"
    /\ clientState' = "running"
    /\ ready' = IF ready = "pending" THEN "resolved" ELSE ready
    /\ UNCHANGED <<serverExecutable, errorHandler, telemetryListener>>
    /\ UNCHANGED <<launchVars, envVars, eventVars>>

\* the start failed (spawn or initialize): the onReady promise rejects
StartFails ==
    /\ Idle
    /\ clientState = "starting"
    /\ ready = "pending"
    /\ clientState' = "stopped"
    /\ ready' = "rejected"
    /\ UNCHANGED <<serverExecutable, errorHandler, telemetryListener>>
    /\ UNCHANGED <<launchVars, envVars, eventVars>>

\* ------------------------------------------------------ specifications
Next ==
    \/ Launch
    \/ AcquireResolve
    \/ AcquireReject
    \/ EnsureLanguageServerExists
    \/ CreateClient
    \/ ConfigureTelemetry
    \/ StartClient
    \/ LaunchCompletes
    \/ LaunchFailsOnReady
    \/ TelemetryEvent
    \/ ErrorEvent
    \/ ClosedEvent
    \/ ServerReady
    \/ StartFails

Spec == Init /\ [][Next]_vars

\* the event loop runs every continuation that is ready to run
FairSpec ==
    /\ Spec
    /\ WF_vars(EnsureLanguageServerExists)
    /\ WF_vars(CreateClient)
    /\ WF_vars(ConfigureTelemetry)
    /\ WF_vars(StartClient)
    /\ WF_vars(LaunchCompletes)
    /\ WF_vars(LaunchFailsOnReady)

\* ------------------------------------------------------------ properties
RECURSIVE Count(_, _)
Count(seq, x) ==
    IF seq = <<>> THEN 0
    ELSE (IF Head(seq) = x THEN 1 ELSE 0) + Count(Tail(seq), x)

Range(seq) == {seq[i] : i \in 1..Len(seq)}
IsPrefix(s, t) == Len(s) <= Len(t) /\ \A i \in 1..Len(s) : s[i] = t[i]
\* position of the first occurrence of x in seq, 0 when absent
FirstIndex(seq, x) ==
    IF x \in Range(seq) THEN CHOOSE i \in 1..Len(seq) :
                                 seq[i] = x /\ \A j \in 1..(i - 1) : seq[j] # x
    ELSE 0
\* position of the logger line with the given text, 0 when absent
LogIndex(text) ==
    IF \E i \in 1..Len(log) : log[i][2] = text
    THEN CHOOSE i \in 1..Len(log) : log[i][2] = text
    ELSE 0

Started == clientState \in {"starting", "running", "stopped"}
InitialSubscriptions == {<<>>, <<OtherDisposable>>}
LaunchOrder == <<"dotnet.acquire", "existsSync", "createFileSystemWatcher",
                 "new LanguageClient", "createDefaultErrorHandler", "onTelemetry",
                 "start", "onReady">>
FailedInstall == Error("Failed to install .NET runtime v3.1.", None)
ServerMissing(p) == Error("Language server does not exist at", Some(p))
SetupFailed ==
    /\ error # None
    /\ Val(error).message \in {"Failed to install .NET runtime v3.1.",
                               "Language server does not exist at"}
IsHandled(e) == e.type \in {"error", "closed"}
IsTelemetry(e) == e.type = "telemetry"
IsLspReport(r) == r.callbackId = lspErrorId
IsTelemetryReport(r) == r.callbackId # lspErrorId
Handled == SelectSeq(events, IsHandled)
TelemetryEvents == SelectSeq(events, IsTelemetry)
LspReports == SelectSeq(reports, IsLspReport)
TelemetryReports == SelectSeq(reports, IsTelemetryReport)

\* C1: the external calls of a launch happen in the fixed order acquisition,
\* existence check, client construction and configuration, start, wait for
\* readiness; a started client implies the runtime path was acquired and the
\* server path was verified to exist, and the wait implies a started client.
C1_LaunchOrder ==
    /\ IsPrefix(calls, LaunchOrder)
    /\ Started =>
        /\ acquired # None /\ Val(acquired) # None
        /\ dotnetCommandPath # None
        /\ checkedPath # None /\ ExistsSync(Val(checkedPath))
        /\ languageServerPath # None
    /\ pc \in {"awaitReady", "done"} => Started

C1_Witness == pc = "awaitReady" /\ calls = LaunchOrder /\ clientState = "starting"

\* C2: when "dotnet.acquire" resolved with no result the launch has thrown
\* (the progress promise rejected), the existence check was not performed, no
\* client was created or started and context.subscriptions is as it was.
C2_AcquireFailure ==
    (acquired # None /\ Val(acquired) = None) =>
        /\ pc = "failed"
        /\ error = Some(FailedInstall)
        /\ progress = "rejected"
        /\ "existsSync" \notin Range(calls)
        /\ checkedPath = None
        /\ clientState = "none"
        /\ serverExecutable = None
        /\ "start" \notin Range(calls)
        /\ subscriptions \in InitialSubscriptions

C2_Witness == acquired = Some(None) /\ pc = "failed" /\ subscriptions = <<OtherDisposable>>

\* C3: when the chosen server path does not exist the launch has thrown after
\* the runtime was acquired; no client was created or started, nothing was
\* spawned, no error handler or listener was installed and
\* context.subscriptions is as it was.
C3_ServerMissing ==
    (checkedPath # None /\ ~ExistsSync(Val(checkedPath))) =>
        /\ pc = "failed"
        /\ error = Some(ServerMissing(Val(checkedPath)))
        /\ progress = "rejected"
        /\ dotnetCommandPath # None
        /\ FirstIndex(calls, "dotnet.acquire") = 1
        /\ clientState = "none"
        /\ serverExecutable = None
        /\ errorHandler = "none"
        /\ ~telemetryListener
        /\ "new LanguageClient" \notin Range(calls)
        /\ "start" \notin Range(calls)
        /\ subscriptions \in InitialSubscriptions

C3_Witness ==
    /\ checkedPath # None
    /\ ~ExistsSync(Val(checkedPath))
    /\ dotnetCommandPath # None
    /\ pc = "failed"

\* the path the environment variable or the package selects
SelectedPath == IF env # None THEN Val(env) ELSE PackagedAbs

\* C4 as stated: the path checked and the path handed to the spawned process
\* are both the value of the variable when it is set, the packaged path when
\* it is not; with the variable set to a path that does not exist the launch
\* fails.
C4_Original ==
    /\ checkedPath # None => Val(checkedPath) = SelectedPath
    /\ serverExecutable # None => Val(serverExecutable).args = <<SelectedPath>>
    /\ (env # None /\ ~ExistsSync(Val(env)) /\ checkedPath # None) =>
            pc = "failed" /\ serverExecutable = None

\* C4 amended: the path checked is the value of the variable when it is set
\* and the packaged path made absolute when it is not; the spawned process
\* gets path.resolve of that path; with the variable set to a path that does
\* not exist (the empty string included) the launch fails, whether or not
\* the packaged server exists.
C4_ServerPath ==
    /\ checkedPath # None => Val(checkedPath) = SelectedPath
    /\ serverExecutable # None =>
            Val(serverExecutable).args = <<Resolve(SelectedPath)>>
    /\ (env # None /\ ~ExistsSync(Val(env)) /\ checkedPath # None) =>
            /\ pc = "failed"
            /\ error = Some(ServerMissing(Val(env)))
            /\ serverExecutable = None

C4_Witness ==
    /\ env = Some(EmptyPath)
    /\ PackagedAbs \in fs
    /\ checkedPath = Some(EmptyPath)
    /\ pc = "failed"

\* the arguments the connection gave the handler for an event
HandlerArgs(e) ==
    IF e.type = "error" THEN <<Val(e.error), e.message, Val(e.count)>> ELSE <<>>

\* C5: every error and closed event makes exactly one "naniscript.lsp-error"
\* report and one invocation of the default handler with the event's
\* arguments; the action returned is the one the default handler returned;
\* the error thrown in the reporting callback is caught and does not escape.
C5_ErrorForwarding ==
    /\ Len(LspReports) = Len(Handled)
    /\ Len(defaultCalls) = Len(Handled)
    /\ Len(returns) = Len(Handled)
    /\ \A i \in 1..Len(Handled) :
        /\ defaultCalls[i].kind = Handled[i].type
        /\ defaultCalls[i].args = HandlerArgs(Handled[i])
        /\ returns[i] = Some(defaultCalls[i].returned)
        /\ LspReports[i].caught # None
        /\ ~LspReports[i].rethrown

C5_Witness ==
    /\ Len(Handled) = 2
    /\ Handled[1].type = "error" /\ Handled[1].message # None
    /\ returns[1] = Some("Continue")
    /\ Handled[2].type = "closed"
    /\ returns[2] = Some("DoNotRestart")

\* C6: the launch completes, and the progress ends with success, only after
\* the client signalled ready; ready implies started, and the logger's
\* "started" line precedes its "ready" line; once the client signalled ready
\* the launch eventually completes.
C6_CompletesAfterReady ==
    /\ [](pc = "done" => ready = "resolved" /\ progress = "success")
    /\ [](progress = "success" => pc = "done" /\ ready = "resolved")
    /\ [](ready = "resolved" => Started /\ "start" \in Range(calls))
    /\ [](LogIndex("Naninovel language service ready.") > 0 =>
            /\ ready = "resolved"
            /\ LogIndex("Naninovel language service started.") > 0
            /\ LogIndex("Naninovel language service started.")
                 < LogIndex("Naninovel language service ready."))
    /\ (ready = "resolved" ~> pc = "done")

C6_Witness == pc = "done" /\ progress = "success" /\ ready = "resolved"

\* C7: within one launch the acquisition command is executed at most once,
\* the existence check is performed at most once and the client is started at
\* most once; once a setup failure happened nothing changes any more.
C7_NoRetry ==
    /\ [](/\ Count(calls, "dotnet.acquire") <= 1
          /\ Count(calls, "existsSync") <= 1
          /\ Count(calls, "start") <= 1)
    /\ [][SetupFailed => UNCHANGED vars]_vars

C7_Witness == SetupFailed /\ Count(calls, "dotnet.acquire") = 1

\* a step that delivers a telemetry event
TelemetryStep ==
    /\ Len(events') = Len(events) + 1
    /\ events'[Len(events')].type = "telemetry"

\* C8: the telemetry reports are, in order, one per telemetry event received,
\* named by its eventName, carrying its properties unchanged, with error
\* display suppressed; delivering one changes nothing else.
C8_TelemetryPassThrough ==
    /\ [](/\ Len(TelemetryReports) = Len(TelemetryEvents)
          /\ \A i \in 1..Len(TelemetryEvents) :
                /\ TelemetryReports[i].callbackId = Val(TelemetryEvents[i].eventName)
                /\ TelemetryReports[i].properties = Val(TelemetryEvents[i].properties)
                /\ TelemetryReports[i].suppressDisplay
                /\ TelemetryReports[i].caught = None)
    /\ [][TelemetryStep =>
            /\ Len(reports') = Len(reports) + 1
            /\ UNCHANGED <<launchVars, envVars, clientVars, defaultCalls, returns>>]_vars

C8_Witness ==
    /\ Len(TelemetryEvents) = 2
    /\ TelemetryEvents[1].eventName # TelemetryEvents[2].eventName
    /\ TelemetryEvents[1].properties # TelemetryEvents[2].properties

\* C9: whenever the client is started the telemetry listener and the custom
\* error handler are installed, and were installed before the start; every
\* error or closed event handled by the default handler has its report.
C9_HandlersBeforeStart ==
    /\ Started =>
        /\ errorHandler = "custom"
        /\ telemetryListener
        /\ 0 < FirstIndex(calls, "onTelemetry")
        /\ FirstIndex(calls, "onTelemetry") < FirstIndex(calls, "start")
    /\ Len(LspReports) = Len(defaultCalls)
    /\ Len(defaultCalls) = Len(Handled)

C9_Witness ==
    /\ Started
    /\ errorHandler = "custom"
    /\ Len(defaultCalls) > 0
    /\ Len(TelemetryEvents) > 0

\* C10: whenever the client is started the disposable of client.start() is in
\* context.subscriptions, also when readiness is never signalled or the wait
\* for it fails; no step removes an entry of context.subscriptions.
C10_DisposableRegistered ==
    /\ [](Started => ClientDisposable \in Range(subscriptions))
    /\ [][IsPrefix(subscriptions, subscriptions')]_vars

C10_Witness ==
    /\ pc = "failed"
    /\ ready = "rejected"
    /\ clientState = "stopped"
    /\ subscriptions = <<OtherDisposable, ClientDisposable>>

====
